---- MODULE Spec2Model ----
(***************************************************************************)
(* Stock control system: the inventory service (src/src/service.rs), its   *)
(* data model (src/src/models.rs), its errors (src/src/errors.rs) and the  *)
(* JSON file storage behind the Storage trait (src/src/storage.rs).        *)
(*                                                                         *)
(* Strings are sequences of one-character strings.  Option<T> is a         *)
(* sequence of length at most one.  u32 is scaled down to 0..U32_MAX.      *)
(***************************************************************************)
EXTENDS Integers, Sequences, FiniteSets, TLC

(* ------------------------------ bounds --------------------------------- *)

\* Largest value of the (scaled down) u32 type.
U32_MAX == 3

\* Largest instant the clock hands out.
MaxTime == 1

\* Number of identifiers the generator hands out in one behaviour.
MaxIds == 2

\* Number of save calls that fail in one behaviour.
MaxSaveFailures == 1

\* Number of identifiers handed out in one behaviour of the history
\* specification.
MaxHistoryIds == 4

\* Identifiers handed out in the stock specification.
MaxStockIds == 3

\* Identifiers handed out in the update specification.
MaxUpdateIds == 2

\* Identifiers handed out in the construction specification.
MaxConstructionIds == 2

\* Identifiers handed out in the ledger specification.
MaxLedgerIds == 5

\* Identifiers handed out in the save-failure specification.
MaxFailureIds == 3

\* Identifiers handed out in the two-instance specification.
MaxPeerIds == 3

\* Identifiers handed out in the one-instance specification.
MaxInstanceIds == 4

\* Records in a backing file written by something other than the service.
MaxStoredRecords == 2

\* Identifiers handed out in the stored-collections specification.
MaxStoredIds == 1

\* Identifiers handed out in the validation specification.
MaxValidationIds == 3

\* Identifiers handed out in the history-window specification.
MaxWindowIds == 3

(* ------------------------------ inputs --------------------------------- *)

None == <<>>

Some(x) == <<x>>

\* The arguments and environment choices the operations are called with.
Inputs ==
  [ new_skus |-> { <<" ">>, <<"A">>, <<"B">> },
    skus |-> { <<"A">>, <<"B">> },
    names |-> { <<" ">>, <<"w">> },
    descriptions |-> { <<"d">> },
    initial_quantities |-> { 0, U32_MAX - 1 },
    reorder_points |-> { 0 },
    updates |-> { [name |-> Some(<<"v">>), description |-> Some(<<>>), reorder_point |-> None],
                  [name |-> Some(<<" ">>), description |-> Some(<<>>), reorder_point |-> None] },
    quantities |-> { 0, U32_MAX - 1 },
    notes |-> { None, Some(<<"n">>) },
    times |-> { 0 },
    max_ids |-> MaxIds,
    max_save_failures |-> MaxSaveFailures ]

\* The arguments of the history specification: stock movements of two
\* products under a clock that may run backwards, every save succeeding.
HistoryInputs ==
  [ new_skus |-> { <<"A">>, <<"B">> },
    skus |-> { <<"A">>, <<"B">> },
    names |-> { <<"w">> },
    descriptions |-> { <<"d">> },
    initial_quantities |-> { 1 },
    reorder_points |-> { 0 },
    updates |-> {},
    quantities |-> { 1 },
    notes |-> { None },
    times |-> 0..MaxTime,
    max_ids |-> MaxHistoryIds,
    max_save_failures |-> 0 ]

\* The arguments of the stock specification: stock movements of every size
\* on products with differing reorder points, every save succeeding.
StockInputs ==
  [ new_skus |-> { <<"A">>, <<"B">> },
    skus |-> { <<"A">>, <<"B">> },
    names |-> { <<"w">> },
    descriptions |-> { <<"d">> },
    initial_quantities |-> { 0, 1 },
    reorder_points |-> { 0, 1 },
    updates |-> {},
    quantities |-> { 0, 1, U32_MAX - 1 },
    notes |-> { None, Some(<<"n">>) },
    times |-> { 0 },
    max_ids |-> MaxStockIds,
    max_save_failures |-> 0 ]

\* The arguments of the update specification: every combination of a
\* supplied or absent name (valid or blank), description and reorder point.
UpdateInputs ==
  [ new_skus |-> { <<"A">>, <<"B">> },
    skus |-> { <<"A">>, <<"B">> },
    names |-> { <<"w">> },
    descriptions |-> { <<"d">> },
    initial_quantities |-> { 1 },
    reorder_points |-> { 0 },
    updates |-> [ name : { None, Some(<<"v">>), Some(<<" ">>) },
                  description : { None, Some(<<>>) },
                  reorder_point : { None, Some(1) } ],
    quantities |-> {},
    notes |-> {},
    times |-> { 0 },
    max_ids |-> MaxUpdateIds,
    max_save_failures |-> MaxSaveFailures ]

\* The arguments of the construction specification: one product and its
\* stock, over backing files that are damaged and removed from outside.
ConstructionInputs ==
  [ new_skus |-> { <<"A">> },
    skus |-> { <<"A">> },
    names |-> { <<"w">> },
    descriptions |-> { <<"d">> },
    initial_quantities |-> { 1 },
    reorder_points |-> { 0 },
    updates |-> {},
    quantities |-> { 1 },
    notes |-> { None },
    times |-> { 0 },
    max_ids |-> MaxConstructionIds,
    max_save_failures |-> 0 ]

\* The arguments of the ledger specification: two products created, moved,
\* deleted and created again, and every query, every save succeeding.
LedgerInputs ==
  [ new_skus |-> { <<"A">>, <<"B">> },
    skus |-> { <<"A">>, <<"B">> },
    names |-> { <<"w">> },
    descriptions |-> { <<"d">> },
    initial_quantities |-> { 1 },
    reorder_points |-> { 0 },
    updates |-> { [name |-> None, description |-> Some(<<>>), reorder_point |-> None] },
    quantities |-> { 1 },
    notes |-> { None },
    times |-> { 0 },
    max_ids |-> MaxLedgerIds,
    max_save_failures |-> 0 ]

\* The arguments of the save-failure specification: every mutating operation
\* on two products, with save calls that may fail.
FailureInputs ==
  [ new_skus |-> { <<"A">>, <<"B">> },
    skus |-> { <<"A">>, <<"B">> },
    names |-> { <<"w">> },
    descriptions |-> { <<"d">> },
    initial_quantities |-> { 1 },
    reorder_points |-> { 0 },
    updates |-> { [name |-> None, description |-> Some(<<>>), reorder_point |-> None] },
    quantities |-> { 1 },
    notes |-> { None },
    times |-> { 0 },
    max_ids |-> MaxFailureIds,
    max_save_failures |-> MaxSaveFailures ]

\* The arguments of the one-instance specification: those of the failure
\* specification with room for two products that each have a ledger entry.
InstanceInputs == [FailureInputs EXCEPT !.max_ids = MaxInstanceIds]

\* The arguments of the stored-collections specification: one product added
\* and looked up by a service constructed over files it did not write.
StoredInputs == [ConstructionInputs EXCEPT !.skus = { <<"A">>, <<"B">> },
                                           !.max_ids = MaxStoredIds]

\* Product records a backing file may hold: two different records under the
\* SKU "A" and one under "B".
StoredProducts ==
  { [id |-> <<"u", "7">>, sku |-> <<"A">>, name |-> <<"w">>, description |-> <<"d">>,
     quantity |-> 1, reorder_point |-> 0],
    [id |-> <<"u", "8">>, sku |-> <<"A">>, name |-> <<"v">>, description |-> <<>>,
     quantity |-> 2, reorder_point |-> 1],
    [id |-> <<"u", "9">>, sku |-> <<"B">>, name |-> <<"w">>, description |-> <<"d">>,
     quantity |-> 1, reorder_point |-> 0] }

\* Ledger entries a backing file may hold.
StoredTransactions ==
  { [id |-> <<"u", "5">>, product_sku |-> <<"A">>, transaction_type |-> "Addition",
     quantity |-> 1, timestamp |-> 0, notes |-> None],
    [id |-> <<"u", "6">>, product_sku |-> <<"B">>, transaction_type |-> "Removal",
     quantity |-> 1, timestamp |-> 0, notes |-> None] }

\* The sequences of at most n records.
StoredSequences(records, n) == UNION { [1..k -> records] : k \in 0..n }

\* The arguments of the validation specification: blank and valid SKUs and
\* names, zero, covered and excessive quantities, on the SKU "A" that can be
\* created and the SKU "B" that never exists.
ValidationInputs ==
  [ new_skus |-> { <<" ">>, <<"A">> },
    skus |-> { <<"A">>, <<"B">> },
    names |-> { <<" ">>, <<"w">> },
    descriptions |-> { <<"d">> },
    initial_quantities |-> { 1 },
    reorder_points |-> { 0 },
    updates |-> { [name |-> Some(<<"v">>), description |-> None, reorder_point |-> None],
                  [name |-> Some(<<" ">>), description |-> None, reorder_point |-> None] },
    quantities |-> { 0, 1, 2 },
    notes |-> { None },
    times |-> { 0 },
    max_ids |-> MaxValidationIds,
    max_save_failures |-> 0 ]

\* The arguments of the history-window specification: one product whose stock
\* moves at two instants, and the history command with either bound present
\* or absent.
WindowInputs == [HistoryInputs EXCEPT !.new_skus = { <<"A">> },
                                      !.max_ids = MaxWindowIds]

\* The arguments of the two-instance specification: products added, moved
\* and deleted by either of two services over one store, every save
\* succeeding.
PeerInputs ==
  [ new_skus |-> { <<"A">>, <<"B">> },
    skus |-> { <<"A">>, <<"B">> },
    names |-> { <<"w">> },
    descriptions |-> { <<"d">> },
    initial_quantities |-> { 1 },
    reorder_points |-> { 0 },
    updates |-> {},
    quantities |-> { 1 },
    notes |-> { None },
    times |-> { 0 },
    max_ids |-> MaxPeerIds,
    max_save_failures |-> 0 ]

(* --------------------------- string helpers ---------------------------- *)

IsWhitespace(c) == c = " "

RECURSIVE TrimStart(_)
TrimStart(s) ==
  IF s = <<>> THEN <<>>
  ELSE IF IsWhitespace(Head(s)) THEN TrimStart(Tail(s)) ELSE s

RECURSIVE TrimEnd(_)
TrimEnd(s) ==
  IF s = <<>> THEN <<>>
  ELSE IF IsWhitespace(s[Len(s)]) THEN TrimEnd(SubSeq(s, 1, Len(s) - 1)) ELSE s

\* str::trim
\* Mutant of Trim: nothing is removed.
Trim_nothing(s) == s

\* str::trim
Trim(s) == TrimEnd(TrimStart(s))

Digits == <<"0", "1", "2", "3", "4", "5", "6", "7", "8", "9">>

RECURSIVE FormatDecimal(_)
FormatDecimal(n) ==
  IF n < 10 THEN <<Digits[n + 1]>>
  ELSE FormatDecimal(n \div 10) \o <<Digits[(n % 10) + 1]>>

DigitValue(c) == (CHOOSE i \in DOMAIN Digits : Digits[i] = c) - 1

RECURSIVE ParseDecimal(_)
ParseDecimal(s) ==
  IF s = <<>> THEN 0
  ELSE 10 * ParseDecimal(SubSeq(s, 1, Len(s) - 1)) + DigitValue(s[Len(s)])

\* Uuid::new_v4().to_string(): the n-th identifier drawn in the behaviour.
NewUuid(n) == <<"u">> \o FormatDecimal(n)

(* ------------------------------ JSON ----------------------------------- *)

Quote == "'"

JsonString(s) == <<Quote>> \o s \o <<Quote>>

UnJsonString(j) == SubSeq(j, 2, Len(j) - 1)

JsonNull == <<"n", "u", "l", "l">>

JsonNumber(n) == FormatDecimal(n)

UnJsonNumber(j) == ParseDecimal(j)

\* Mutant of JsonOptionString: the notes are not written.
JsonOptionString_skipped(o) == JsonNull

JsonOptionString(o) == IF o = None THEN JsonNull ELSE JsonString(o[1])

UnJsonOptionString(j) == IF j = JsonNull THEN None ELSE Some(UnJsonString(j))

\* chrono's serde form of DateTime<Utc>: RFC 3339 text with the UTC suffix.
JsonTimestamp(t) == JsonString(FormatDecimal(t) \o <<"Z">>)

UnJsonTimestamp(j) ==
  LET text == UnJsonString(j) IN ParseDecimal(SubSeq(text, 1, Len(text) - 1))

\* serde's derive renders a unit variant as its name.
TransactionTypeTag(ty) == IF ty = "Addition" THEN <<"A", "d", "d", "i", "t", "i", "o", "n">>
                          ELSE <<"R", "e", "m", "o", "v", "a", "l">>

JsonTransactionType(ty) == JsonString(TransactionTypeTag(ty))

UnJsonTransactionType(j) ==
  IF UnJsonString(j) = TransactionTypeTag("Addition") THEN "Addition" ELSE "Removal"

JsonField(obj, key) == obj[CHOOSE i \in DOMAIN obj : obj[i][1] = key][2]

SerializeProduct(p) ==
  << <<"id", JsonString(p.id)>>,
     <<"sku", JsonString(p.sku)>>,
     <<"name", JsonString(p.name)>>,
     <<"description", JsonString(p.description)>>,
     <<"quantity", JsonNumber(p.quantity)>>,
     <<"reorder_point", JsonNumber(p.reorder_point)>> >>

DeserializeProduct(obj) ==
  [ id |-> UnJsonString(JsonField(obj, "id")),
    sku |-> UnJsonString(JsonField(obj, "sku")),
    name |-> UnJsonString(JsonField(obj, "name")),
    description |-> UnJsonString(JsonField(obj, "description")),
    quantity |-> UnJsonNumber(JsonField(obj, "quantity")),
    reorder_point |-> UnJsonNumber(JsonField(obj, "reorder_point")) ]

SerializeTransaction(t) ==
  << <<"id", JsonString(t.id)>>,
     <<"product_sku", JsonString(t.product_sku)>>,
     <<"transaction_type", JsonTransactionType(t.transaction_type)>>,
     <<"quantity", JsonNumber(t.quantity)>>,
     <<"timestamp", JsonTimestamp(t.timestamp)>>,
     <<"notes", JsonOptionString(t.notes)>> >>

DeserializeTransaction(obj) ==
  [ id |-> UnJsonString(JsonField(obj, "id")),
    product_sku |-> UnJsonString(JsonField(obj, "product_sku")),
    transaction_type |-> UnJsonTransactionType(JsonField(obj, "transaction_type")),
    quantity |-> UnJsonNumber(JsonField(obj, "quantity")),
    timestamp |-> UnJsonTimestamp(JsonField(obj, "timestamp")),
    notes |-> UnJsonOptionString(JsonField(obj, "notes")) ]

(* ----------------------------- storage --------------------------------- *)

\* A backing file: absent, or holding a JSON array.
MissingFile == [kind |-> "missing", records |-> <<>>]

JsonFile(records) == [kind |-> "json", records |-> records]

\* A file that exists and holds nothing but whitespace.
BlankFile == [kind |-> "blank", records |-> <<>>]

\* A file that exists and holds text that is not a JSON array of records.
CorruptFile == [kind |-> "corrupt", records |-> <<>>]

\* A file that exists and cannot be read (fs::read_to_string fails with an
\* error other than NotFound).
UnreadableFile == [kind |-> "unreadable", records |-> <<>>]

ReadError == "ReadError"

ParseError == "ParseError"

\* Mutant of read_json_file_error: a file that does not parse is taken as empty.
read_json_file_error_unparsed(file) ==
  IF file.kind = "unreadable" THEN Some(ReadError) ELSE None

\* The error JsonStorage::read_json_file returns, if any: a missing file and
\* a blank file are empty vectors, an unreadable file is a ReadError, a file
\* serde_json rejects is a ParseError.
read_json_file_error(file) ==
  IF file.kind = "unreadable" THEN Some(ReadError)
  ELSE IF file.kind \in {"missing", "blank"} THEN None
  ELSE IF file.kind = "corrupt" THEN Some(ParseError)
  ELSE None

\* Mutant of write_json_file: the elements are added to those in the file.
write_json_file_appending(file, json, ok) ==
  IF ok THEN [kind |-> "json", records |-> file.records \o json] ELSE file

\* JsonStorage::write_json_file, given the serialized elements: the whole
\* file is overwritten; a failed write is modelled as leaving the file alone.
write_json_file(file, json, ok) == IF ok THEN JsonFile(json) ELSE file

\* JsonStorage::read_json_file, up to the elements' deserialization: a
\* missing file is an empty vector.
read_json_file(file) == IF file.kind = "missing" THEN <<>> ELSE file.records

save_products(file, products_vec, ok) ==
  write_json_file(file, [i \in DOMAIN products_vec |-> SerializeProduct(products_vec[i])], ok)

load_products(file) ==
  LET json == read_json_file(file)
  IN [i \in DOMAIN json |-> DeserializeProduct(json[i])]

save_transactions(file, txs, ok) ==
  write_json_file(file, [i \in DOMAIN txs |-> SerializeTransaction(txs[i])], ok)

load_transactions(file) ==
  LET json == read_json_file(file)
  IN [i \in DOMAIN json |-> DeserializeTransaction(json[i])]

(* ------------------------- collection helpers -------------------------- *)

\* HashMap<String, Product> is a function from the SKUs present to products.
EmptyMap == [k \in {} |-> 0]

contains_key(m, k) == k \in DOMAIN m

insert(m, k, v) == [x \in DOMAIN m \cup {k} |-> IF x = k THEN v ELSE m[x]]

\* Mutant of remove: the entry stays.
remove_nothing(m, k) == m

\* HashMap::remove
remove(m, k) == [x \in DOMAIN m \ {k} |-> m[x]]

\* The iteration orders HashMap::values can produce.
Orderings(S) ==
  { f \in [1..Cardinality(S) -> S] : \A i, j \in 1..Cardinality(S) : f[i] = f[j] => i = j }

values(m, order) == [i \in DOMAIN order |-> m[order[i]]]

\* Mutant of collect_by_sku: the first record with a SKU is the one kept.
collect_by_sku_first_wins(vec) ==
  [ k \in { vec[i].sku : i \in DOMAIN vec } |->
      vec[CHOOSE i \in DOMAIN vec :
            /\ vec[i].sku = k
            /\ \A j \in DOMAIN vec : vec[j].sku = k => i <= j] ]

\* products_vec.into_iter().map(|p| (p.sku.clone(), p)).collect(): a later
\* record replaces an earlier one with the same SKU.
collect_by_sku(vec) ==
  [ k \in { vec[i].sku : i \in DOMAIN vec } |->
      vec[CHOOSE i \in DOMAIN vec :
            /\ vec[i].sku = k
            /\ \A j \in DOMAIN vec : vec[j].sku = k => j <= i] ]

\* Mutant of retain_other_skus: the entries kept come out in reverse order.
retain_other_skus_reversed(txs, sku) ==
  LET kept == SelectSeq(txs, LAMBDA t : t.product_sku # sku)
  IN [i \in DOMAIN kept |-> kept[Len(kept) + 1 - i]]

\* Mutant of retain_other_skus: the ledger is left as it is.
retain_all(txs, sku) == txs

\* Mutant of retain_other_skus: the predicate is inverted, so the entries of
\* the deleted SKU are the ones kept.
retain_same_sku(txs, sku) == SelectSeq(txs, LAMBDA t : t.product_sku = sku)

\* Vec::retain(|t| t.product_sku != sku)
retain_other_skus(txs, sku) == SelectSeq(txs, LAMBDA t : t.product_sku # sku)

\* iter().filter(|t| t.product_sku == sku).collect()
filter_by_sku(txs, sku) == SelectSeq(txs, LAMBDA t : t.product_sku = sku)

\* Mutant of filter_by_sku_in_range: the end of the range is excluded.
filter_by_sku_before_end(txs, sku, start, end) ==
  SelectSeq(txs, LAMBDA t : t.product_sku = sku /\ t.timestamp >= start /\ t.timestamp < end)

\* iter().filter(|t| t.product_sku == sku && t.timestamp >= start
\*                   && t.timestamp <= end).collect()
filter_by_sku_in_range(txs, sku, start, end) ==
  SelectSeq(txs, LAMBDA t : t.product_sku = sku /\ t.timestamp >= start /\ t.timestamp <= end)

\* Mutant of insert_sorted: x goes before the elements equal to it.
RECURSIVE insert_sorted_before_equal(_, _)
insert_sorted_before_equal(sorted, x) ==
  IF sorted = <<>> THEN <<x>>
  ELSE IF sorted[Len(sorted)].timestamp < x.timestamp THEN Append(sorted, x)
  ELSE Append(insert_sorted_before_equal(SubSeq(sorted, 1, Len(sorted) - 1), x),
              sorted[Len(sorted)])

\* One step of a stable insertion: x goes after every element that is not
\* greater than it.
RECURSIVE insert_sorted(_, _)
insert_sorted(sorted, x) ==
  IF sorted = <<>> THEN <<x>>
  ELSE IF sorted[Len(sorted)].timestamp <= x.timestamp THEN Append(sorted, x)
  ELSE Append(insert_sorted(SubSeq(sorted, 1, Len(sorted) - 1), x), sorted[Len(sorted)])

\* slice::sort_by(|a, b| a.timestamp.cmp(&b.timestamp)): a stable sort.
RECURSIVE sort_by_timestamp(_)
sort_by_timestamp(txs) ==
  IF txs = <<>> THEN <<>>
  ELSE insert_sorted(sort_by_timestamp(SubSeq(txs, 1, Len(txs) - 1)), txs[Len(txs)])

(* ------------------------------ errors --------------------------------- *)

NoValue == <<>>

ResultOf(kind, sku, requested, available, detail, value) ==
  [kind |-> kind, sku |-> sku, requested |-> requested, available |-> available,
   detail |-> detail, value |-> value]

Ok(value) == ResultOf("Ok", <<>>, 0, 0, "", value)

\* Mutant of ProductNotFound: the SKU is not carried.
ProductNotFound_without_sku(sku) == ResultOf("ProductNotFound", <<>>, 0, 0, "", NoValue)

ProductNotFound(sku) == ResultOf("ProductNotFound", sku, 0, 0, "", NoValue)

DuplicateSKU(sku) == ResultOf("DuplicateSKU", sku, 0, 0, "", NoValue)

InvalidInput(message) == ResultOf("InvalidInput", <<>>, 0, 0, message, NoValue)

\* Mutant of InsufficientStock: requested and available change places.
InsufficientStock_swapped(sku, requested, available) ==
  ResultOf("InsufficientStock", sku, available, requested, "", NoValue)

InsufficientStock(sku, requested, available) ==
  ResultOf("InsufficientStock", sku, requested, available, "", NoValue)

WriteError == "WriteError"

\* Mutant of From_StorageError: the storage error is reported as invalid input.
From_StorageError_as_invalid_input(err) == InvalidInput(err)

\* impl From<StorageError> for ServiceError
From_StorageError(err) == ResultOf("StorageError", <<>>, 0, 0, err, NoValue)

\* The process aborted (an arithmetic overflow panic).
Panicked == ResultOf("Panic", <<>>, 0, 0, "attempt to add with overflow", NoValue)

ValidationErrors == {"InvalidInput", "DuplicateSKU", "ProductNotFound", "InsufficientStock"}


(* ------------------------------- state --------------------------------- *)

VARIABLES
  products,           \* InventoryService.products
  transactions,       \* InventoryService.transactions
  products_file,      \* JsonStorage.products_path, the file's contents
  transactions_file,  \* JsonStorage.transactions_path, the file's contents
  next_id,            \* number of the next identifier Uuid::new_v4 returns
  call,               \* the operation called last, with its arguments
  result,             \* what that call returned
  saves,              \* the save calls that call issued, in order
  save_failures,      \* the number of save calls that have failed so far
  peer_products,      \* InventoryService.products of a second service instance
  peer_transactions   \* InventoryService.transactions of that instance

vars == <<products, transactions, products_file, transactions_file, next_id,
          call, result, saves, save_failures, peer_products, peer_transactions>>

\* The second instance over the same backing files, while the first one runs.
peer_vars == <<peer_products, peer_transactions>>

service_vars == <<products, transactions>>

storage_vars == <<products_file, transactions_file>>

CallOf(op, sku, name, description, quantity, reorder_point, notes) ==
  [op |-> op, sku |-> sku, name |-> name, description |-> description,
   quantity |-> quantity, reorder_point |-> reorder_point, notes |-> notes]

SaveCall(target, ok) == [target |-> target, ok |-> ok]

\* The process is running over a constructed service: construction did not
\* fail, and the process has neither aborted nor ended since.
Alive ==
  /\ result.kind # "Panic"
  /\ call.op # "exit"
  /\ ~(call.op = "new" /\ result.kind # "Ok")

\* Some save call has failed.
save_failed == save_failures > 0

\* InventoryService::new applied to the two backing files.
new(pfile, tfile) ==
  [ products |-> collect_by_sku(load_products(pfile)),
    transactions |-> load_transactions(tfile) ]

Init ==
  /\ products_file = MissingFile
  /\ transactions_file = MissingFile
  /\ products = new(MissingFile, MissingFile).products
  /\ transactions = new(MissingFile, MissingFile).transactions
  /\ next_id = 1
  /\ call = CallOf("new", <<>>, None, None, 0, None, None)
  /\ result = Ok(NoValue)
  /\ saves = <<>>
  /\ save_failures = 0
  /\ peer_products = new(MissingFile, MissingFile).products
  /\ peer_transactions = new(MissingFile, MissingFile).transactions

\* A new process constructs the service over the same backing files.
Restart ==
  /\ products' = new(products_file, transactions_file).products
  /\ transactions' = new(products_file, transactions_file).transactions
  /\ call' = CallOf("new", <<>>, None, None, 0, None, None)
  /\ result' = Ok(NoValue)
  /\ saves' = <<>>
  /\ UNCHANGED <<storage_vars, next_id, save_failures, peer_vars>>

\* InventoryService::new with its two `?`: the products are loaded first, then
\* the transactions, and the first load error ends the construction.
try_new(pfile, tfile) ==
  IF read_json_file_error(pfile) # None
  THEN From_StorageError(read_json_file_error(pfile)[1])
  ELSE IF read_json_file_error(tfile) # None
  THEN From_StorageError(read_json_file_error(tfile)[1])
  ELSE Ok(Some(new(pfile, tfile)))

\* A new process constructs the service over the backing files as they are;
\* when the construction fails there is no service.
Construct ==
  LET constructed == try_new(products_file, transactions_file)
  IN /\ call' = CallOf("new", <<>>, None, None, 0, None, None)
     /\ result' = constructed
     /\ products' = IF constructed.kind = "Ok" THEN constructed.value[1].products
                    ELSE EmptyMap
     /\ transactions' = IF constructed.kind = "Ok" THEN constructed.value[1].transactions
                        ELSE <<>>
     /\ saves' = <<>>
     /\ UNCHANGED <<storage_vars, next_id, save_failures, peer_vars>>

\* Something other than the service replaces or removes a backing file.
Damage ==
  \E file \in {MissingFile, BlankFile, CorruptFile, UnreadableFile} :
    /\ \/ products_file' = file /\ UNCHANGED transactions_file
       \/ transactions_file' = file /\ UNCHANGED products_file
    /\ UNCHANGED <<service_vars, next_id, call, result, saves, save_failures, peer_vars>>

\* The process ends, and before the next one starts something other than the
\* service writes both backing files: any JSON arrays of product records and
\* of ledger entries, records with one SKU several times included.
Overwrite ==
  \E stored_products \in StoredSequences(StoredProducts, MaxStoredRecords),
     stored_transactions \in StoredSequences(StoredTransactions, MaxStoredRecords) :
    /\ products_file' = save_products(products_file, stored_products, TRUE)
    /\ transactions_file' = save_transactions(transactions_file, stored_transactions, TRUE)
    /\ products' = EmptyMap
    /\ transactions' = <<>>
    /\ call' = CallOf("exit", <<>>, None, None, 0, None, None)
    /\ result' = Ok(NoValue)
    /\ saves' = <<>>
    /\ UNCHANGED <<next_id, save_failures, peer_vars>>

\* The scheduler turns to the other instance: its memory becomes the one the
\* operations act on, and the memory of the instance that ran is kept aside.
SwitchInstance ==
  /\ Alive
  /\ products' = peer_products
  /\ transactions' = peer_transactions
  /\ peer_products' = products
  /\ peer_transactions' = transactions
  /\ call' = CallOf("switch", <<>>, None, None, 0, None, None)
  /\ result' = Ok(NoValue)
  /\ saves' = <<>>
  /\ UNCHANGED <<storage_vars, next_id, save_failures>>

\* An operation that returns an error before touching anything.
Reject(c, r) ==
  /\ call' = c
  /\ result' = r
  /\ saves' = <<>>
  /\ UNCHANGED <<service_vars, storage_vars, next_id, save_failures, peer_vars>>

\* The process aborts inside the call: nothing was changed or saved yet.
Abort(c) ==
  /\ call' = c
  /\ result' = Panicked
  /\ saves' = <<>>
  /\ UNCHANGED <<service_vars, storage_vars, next_id, save_failures, peer_vars>>

(* --------------------------- u32 arithmetic ---------------------------- *)

U32_MODULUS == U32_MAX + 1

\* u32 `+=`: exact while the sum fits; past u32::MAX the build decides, a
\* panic with overflow checks (debug profile), a wrapped value without them
\* (release profile).
u32_add(a, b, overflow_checks) ==
  IF a + b <= U32_MAX THEN [panic |-> FALSE, value |-> a + b]
  ELSE IF overflow_checks THEN [panic |-> TRUE, value |-> a]
  ELSE [panic |-> FALSE, value |-> (a + b) % U32_MODULUS]

\* u32 `-=`, likewise.
u32_sub(a, b, overflow_checks) ==
  IF a >= b THEN [panic |-> FALSE, value |-> a - b]
  ELSE IF overflow_checks THEN [panic |-> TRUE, value |-> a]
  ELSE [panic |-> FALSE, value |-> (a - b) % U32_MODULUS]

(* ------------------------------ saving --------------------------------- *)

\* Which save call of an operation fails, if any.
SaveOutcomes(in, targets) ==
  {"none"} \cup (IF save_failures < in.max_save_failures THEN targets ELSE {})

\* Mutant of persist_products: success is reported without writing the file.
persist_products_unwritten(file, catalog, order, ok) == file

\* InventoryService::persist_products: the values of the map, in iteration
\* order, handed to Storage::save_products.
persist_products(file, catalog, order, ok) ==
  save_products(file, values(catalog, order), ok)

\* InventoryService::persist_transactions
persist_transactions(file, ledger, ok) == save_transactions(file, ledger, ok)

\* `self.persist_products()?; Ok(value)` after the in-memory change.
PersistProducts(new_products, order, fail, value) ==
  /\ products_file' = persist_products(products_file, new_products, order, fail # "products")
  /\ transactions_file' = transactions_file
  /\ saves' = << SaveCall("products", fail # "products") >>
  /\ result' = IF fail = "products" THEN From_StorageError(WriteError) ELSE Ok(value)
  /\ save_failures' = save_failures + (IF fail = "products" THEN 1 ELSE 0)
  /\ UNCHANGED peer_vars

\* Mutant of PersistBoth: a failed transactions save takes the products save
\* back.
PersistBoth_rolled_back(new_products, new_transactions, order, fail) ==
  /\ products_file' = IF fail = "none"
                      THEN persist_products(products_file, new_products, order, TRUE)
                      ELSE products_file
  /\ transactions_file' =
       IF fail = "products" THEN transactions_file
       ELSE persist_transactions(transactions_file, new_transactions, fail # "transactions")
  /\ saves' = IF fail = "products" THEN << SaveCall("products", FALSE) >>
              ELSE << SaveCall("products", TRUE), SaveCall("transactions", fail # "transactions") >>
  /\ result' = IF fail = "none" THEN Ok(NoValue) ELSE From_StorageError(WriteError)
  /\ save_failures' = save_failures + (IF fail # "none" THEN 1 ELSE 0)
  /\ UNCHANGED peer_vars

\* Mutant of PersistBoth: the transactions are saved whatever the products
\* save returned.
PersistBoth_unconditional(new_products, new_transactions, order, fail) ==
  /\ products_file' = persist_products(products_file, new_products, order, fail # "products")
  /\ transactions_file' =
       persist_transactions(transactions_file, new_transactions, fail # "transactions")
  /\ saves' = << SaveCall("products", fail # "products"),
                 SaveCall("transactions", fail # "transactions") >>
  /\ result' = IF fail = "none" THEN Ok(NoValue) ELSE From_StorageError(WriteError)
  /\ save_failures' = save_failures + (IF fail # "none" THEN 1 ELSE 0)
  /\ UNCHANGED peer_vars

\* `self.persist_products()?; self.persist_transactions()?; Ok(())` after the
\* in-memory change: the second save is not reached when the first fails.
PersistBoth(new_products, new_transactions, order, fail) ==
  /\ products_file' = persist_products(products_file, new_products, order, fail # "products")
  /\ transactions_file' =
       IF fail = "products" THEN transactions_file
       ELSE persist_transactions(transactions_file, new_transactions, fail # "transactions")
  /\ saves' = IF fail = "products" THEN << SaveCall("products", FALSE) >>
              ELSE << SaveCall("products", TRUE), SaveCall("transactions", fail # "transactions") >>
  /\ result' = IF fail = "none" THEN Ok(NoValue) ELSE From_StorageError(WriteError)
  /\ save_failures' = save_failures + (IF fail # "none" THEN 1 ELSE 0)
  /\ UNCHANGED peer_vars

(* ----------------------------- operations ------------------------------ *)

\* Mutant of is_duplicate_sku: the duplicate test is left out.
is_duplicate_sku_unchecked(catalog, sku) == FALSE

\* The duplicate test of add_product: `self.products.contains_key(&sku)`.
is_duplicate_sku(catalog, sku) == contains_key(catalog, sku)

\* InventoryService::add_product
AddProduct(in) ==
  \E sku \in in.new_skus, name \in in.names, description \in in.descriptions,
     initial_quantity \in in.initial_quantities, reorder_point \in in.reorder_points :
    LET c == CallOf("add_product", sku, name, description, initial_quantity,
                    reorder_point, None)
        product == [ id |-> NewUuid(next_id), sku |-> sku, name |-> name,
                     description |-> description, quantity |-> initial_quantity,
                     reorder_point |-> reorder_point ]
        new_products == insert(products, sku, product)
    IN /\ Alive
       /\ IF Trim(sku) = <<>> THEN Reject(c, InvalidInput("SKU cannot be empty"))
          ELSE IF Trim(name) = <<>> THEN Reject(c, InvalidInput("Name cannot be empty"))
          ELSE IF is_duplicate_sku(products, sku) THEN Reject(c, DuplicateSKU(sku))
          ELSE /\ next_id <= in.max_ids
               /\ \E order \in Orderings(DOMAIN new_products),
                     fail \in SaveOutcomes(in, {"products"}) :
                    /\ call' = c
                    /\ products' = new_products
                    /\ transactions' = transactions
                    /\ next_id' = next_id + 1
                    /\ PersistProducts(new_products, order, fail, Some(product))

\* Mutant of apply_update: the description is assigned before the name is
\* checked.
apply_update_description_first(product, name, description, reorder_point) ==
  LET described == [ product EXCEPT
                       !.description = IF description # None THEN description[1] ELSE @ ]
  IN IF name # None /\ Trim(name[1]) = <<>>
     THEN [valid |-> FALSE, product |-> described]
     ELSE [valid |-> TRUE,
           product |-> [ described EXCEPT
             !.name = IF name # None THEN name[1] ELSE @,
             !.reorder_point = IF reorder_point # None THEN reorder_point[1] ELSE @ ]]

\* Mutant of apply_update: the reorder point is assigned before the name is
\* checked.
apply_update_reorder_point_first(product, name, description, reorder_point) ==
  LET reordered == [ product EXCEPT
                       !.reorder_point = IF reorder_point # None THEN reorder_point[1] ELSE @ ]
  IN IF name # None /\ Trim(name[1]) = <<>>
     THEN [valid |-> FALSE, product |-> reordered]
     ELSE [valid |-> TRUE,
           product |-> [ reordered EXCEPT
             !.name = IF name # None THEN name[1] ELSE @,
             !.description = IF description # None THEN description[1] ELSE @ ]]

\* Mutant of apply_update: an absent reorder point resets the field.
apply_update_resetting_absent(product, name, description, reorder_point) ==
  IF name # None /\ Trim(name[1]) = <<>>
  THEN [valid |-> FALSE, product |-> product]
  ELSE [valid |-> TRUE,
        product |-> [ product EXCEPT
          !.name = IF name # None THEN name[1] ELSE @,
          !.description = IF description # None THEN description[1] ELSE @,
          !.reorder_point = IF reorder_point # None THEN reorder_point[1] ELSE 0 ]]

\* The body of update_product once the product is found: the name is checked
\* and assigned first, then the description, then the reorder point, all
\* through the mutable reference into the map.
apply_update(product, name, description, reorder_point) ==
  IF name # None /\ Trim(name[1]) = <<>>
  THEN [valid |-> FALSE, product |-> product]
  ELSE [valid |-> TRUE,
        product |-> [ product EXCEPT
          !.name = IF name # None THEN name[1] ELSE @,
          !.description = IF description # None THEN description[1] ELSE @,
          !.reorder_point = IF reorder_point # None THEN reorder_point[1] ELSE @ ]]

\* InventoryService::update_product
UpdateProduct(in) ==
  \E sku \in in.skus, update \in in.updates :
    LET name == update.name
        description == update.description
        reorder_point == update.reorder_point
        c == CallOf("update_product", sku, name, description, 0, reorder_point, None)
    IN /\ Alive
       /\ IF ~contains_key(products, sku) THEN Reject(c, ProductNotFound(sku))
          ELSE LET u == apply_update(products[sku], name, description, reorder_point)
                   new_products == [products EXCEPT ![sku] = u.product]
               IN IF ~u.valid
                  THEN /\ call' = c
                       /\ result' = InvalidInput("Name cannot be empty")
                       /\ saves' = <<>>
                       /\ products' = new_products
                       /\ UNCHANGED <<transactions, storage_vars, next_id, save_failures, peer_vars>>
                  ELSE \E order \in Orderings(DOMAIN new_products),
                          fail \in SaveOutcomes(in, {"products"}) :
                         /\ call' = c
                         /\ products' = new_products
                         /\ PersistProducts(new_products, order, fail, Some(u.product))
                         /\ UNCHANGED <<transactions, next_id>>

\* InventoryService::delete_product
DeleteProduct(in) ==
  \E sku \in in.skus :
    LET c == CallOf("delete_product", sku, None, None, 0, None, None)
        new_products == remove(products, sku)
        new_transactions == retain_other_skus(transactions, sku)
    IN /\ Alive
       /\ IF ~contains_key(products, sku) THEN Reject(c, ProductNotFound(sku))
          ELSE \E order \in Orderings(DOMAIN new_products),
                  fail \in SaveOutcomes(in, {"products", "transactions"}) :
                 /\ call' = c
                 /\ products' = new_products
                 /\ transactions' = new_transactions
                 /\ PersistBoth(new_products, new_transactions, order, fail)
                 /\ UNCHANGED next_id

\* Mutant of new_transaction: the notes are dropped.
new_transaction_without_notes(id, sku, transaction_type, quantity, now, notes) ==
  [ id |-> id, product_sku |-> sku, transaction_type |-> transaction_type,
    quantity |-> quantity, timestamp |-> now, notes |-> None ]

\* Mutant of quantity_is_zero: the quantity is not validated.
quantity_is_zero_unchecked(quantity) == FALSE

\* The validation of add_stock and remove_stock: `quantity == 0`.
quantity_is_zero(quantity) == quantity = 0

\* The Transaction literal built by add_stock and remove_stock.
new_transaction(id, sku, transaction_type, quantity, now, notes) ==
  [ id |-> id, product_sku |-> sku, transaction_type |-> transaction_type,
    quantity |-> quantity, timestamp |-> now, notes |-> notes ]

\* Mutant of AddStock: the product is looked up before the quantity is
\* validated.
AddStock_lookup_first(in) ==
  \E sku \in in.skus, quantity \in in.quantities, notes \in in.notes :
    LET c == CallOf("add_stock", sku, None, None, quantity, None, notes)
    IN /\ Alive
       /\ IF ~contains_key(products, sku) THEN Reject(c, ProductNotFound(sku))
          ELSE IF quantity_is_zero(quantity)
               THEN Reject(c, InvalidInput("Quantity must be positive"))
          ELSE \E overflow_checks \in BOOLEAN :
                 LET sum == u32_add(products[sku].quantity, quantity, overflow_checks)
                 IN IF sum.panic THEN Abort(c)
                    ELSE /\ next_id <= in.max_ids
                         /\ \E now \in in.times, order \in Orderings(DOMAIN products),
                               fail \in SaveOutcomes(in, {"products", "transactions"}) :
                              LET new_products ==
                                    [products EXCEPT ![sku].quantity = sum.value]
                                  transaction ==
                                    new_transaction(NewUuid(next_id), sku, "Addition",
                                                    quantity, now, notes)
                                  new_transactions == Append(transactions, transaction)
                              IN /\ call' = c
                                 /\ products' = new_products
                                 /\ transactions' = new_transactions
                                 /\ next_id' = next_id + 1
                                 /\ PersistBoth(new_products, new_transactions, order, fail)

\* InventoryService::add_stock
AddStock(in) ==
  \E sku \in in.skus, quantity \in in.quantities, notes \in in.notes :
    LET c == CallOf("add_stock", sku, None, None, quantity, None, notes)
    IN /\ Alive
       /\ IF quantity_is_zero(quantity) THEN Reject(c, InvalidInput("Quantity must be positive"))
          ELSE IF ~contains_key(products, sku) THEN Reject(c, ProductNotFound(sku))
          ELSE \E overflow_checks \in BOOLEAN :
                 LET sum == u32_add(products[sku].quantity, quantity, overflow_checks)
                 IN IF sum.panic THEN Abort(c)
                    ELSE /\ next_id <= in.max_ids
                         /\ \E now \in in.times, order \in Orderings(DOMAIN products),
                               fail \in SaveOutcomes(in, {"products", "transactions"}) :
                              LET new_products ==
                                    [products EXCEPT ![sku].quantity = sum.value]
                                  transaction ==
                                    new_transaction(NewUuid(next_id), sku, "Addition",
                                                    quantity, now, notes)
                                  new_transactions == Append(transactions, transaction)
                              IN /\ call' = c
                                 /\ products' = new_products
                                 /\ transactions' = new_transactions
                                 /\ next_id' = next_id + 1
                                 /\ PersistBoth(new_products, new_transactions, order, fail)

\* Mutant of insufficient_stock: the comparison is turned around.
insufficient_stock_reversed(quantity, available) == quantity < available

\* The sufficiency test of remove_stock: `quantity > product.quantity`.
insufficient_stock(quantity, available) == quantity > available

\* InventoryService::remove_stock
RemoveStock(in) ==
  \E sku \in in.skus, quantity \in in.quantities, notes \in in.notes :
    LET c == CallOf("remove_stock", sku, None, None, quantity, None, notes)
    IN /\ Alive
       /\ IF quantity_is_zero(quantity) THEN Reject(c, InvalidInput("Quantity must be positive"))
          ELSE IF ~contains_key(products, sku) THEN Reject(c, ProductNotFound(sku))
          ELSE IF insufficient_stock(quantity, products[sku].quantity)
               THEN Reject(c, InsufficientStock(sku, quantity, products[sku].quantity))
          ELSE \E overflow_checks \in BOOLEAN :
                 LET difference == u32_sub(products[sku].quantity, quantity, overflow_checks)
                 IN IF difference.panic THEN Abort(c)
                    ELSE /\ next_id <= in.max_ids
                         /\ \E now \in in.times, order \in Orderings(DOMAIN products),
                               fail \in SaveOutcomes(in, {"products", "transactions"}) :
                              LET new_products ==
                                    [products EXCEPT ![sku].quantity = difference.value]
                                  transaction ==
                                    new_transaction(NewUuid(next_id), sku, "Removal",
                                                    quantity, now, notes)
                                  new_transactions == Append(transactions, transaction)
                              IN /\ call' = c
                                 /\ products' = new_products
                                 /\ transactions' = new_transactions
                                 /\ next_id' = next_id + 1
                                 /\ PersistBoth(new_products, new_transactions, order, fail)

(* ------------------------------- queries -------------------------------- *)

\* InventoryService::get_product
get_product(catalog, sku) ==
  IF contains_key(catalog, sku) THEN Ok(Some(catalog[sku])) ELSE ProductNotFound(sku)

\* Mutant of get_transactions: the sort is left out.
get_transactions_unsorted(ledger, sku) == filter_by_sku(ledger, sku)

\* InventoryService::get_transactions
get_transactions(ledger, sku) == sort_by_timestamp(filter_by_sku(ledger, sku))

\* Mutant of is_low_stock: a product at its reorder point is left out.
is_low_stock_below(product) == product.quantity < product.reorder_point

\* The filter of list_low_stock: `p.quantity <= p.reorder_point`.
is_low_stock(product) == product.quantity <= product.reorder_point

\* InventoryService::list_low_stock: the low products, in the map's
\* iteration order.
list_low_stock(catalog, order) ==
  SelectSeq(values(catalog, order), LAMBDA p : is_low_stock(p))

\* InventoryService::get_transactions_in_range
get_transactions_in_range(ledger, sku, start, end) ==
  sort_by_timestamp(filter_by_sku_in_range(ledger, sku, start, end))

\* A query returns its value and leaves everything else alone.
Query(c, r) ==
  /\ call' = c
  /\ result' = r
  /\ saves' = <<>>
  /\ UNCHANGED <<service_vars, storage_vars, next_id, save_failures, peer_vars>>

GetProduct(in) ==
  \E sku \in in.skus :
    /\ Alive
    /\ Query(CallOf("get_product", sku, None, None, 0, None, None),
             get_product(products, sku))

\* Mutant of GetTransactions: the product is looked up first.
GetTransactions_verifying(in) ==
  \E sku \in in.skus :
    /\ Alive
    /\ Query(CallOf("get_transactions", sku, None, None, 0, None, None),
             IF contains_key(products, sku)
             THEN Ok(get_transactions(transactions, sku))
             ELSE ProductNotFound(sku))

GetTransactions(in) ==
  \E sku \in in.skus :
    /\ Alive
    /\ Query(CallOf("get_transactions", sku, None, None, 0, None, None),
             Ok(get_transactions(transactions, sku)))

\* Mutant of list_products: the listing stops after the first product.
list_products_first(catalog, order) ==
  SubSeq(values(catalog, order), 1, IF order = <<>> THEN 0 ELSE 1)

\* InventoryService::list_products: the values of the map, in iteration order.
list_products(catalog, order) == values(catalog, order)

ListProducts(in) ==
  \E order \in Orderings(DOMAIN products) :
    /\ Alive
    /\ Query(CallOf("list_products", <<>>, None, None, 0, None, None),
             Ok(list_products(products, order)))

\* The call record of a range query: the call's arguments and its two bounds.
RangeCallOf(sku, start, end) ==
  [op |-> "get_transactions_in_range", sku |-> sku, name |-> None,
   description |-> None, quantity |-> 0, reorder_point |-> None, notes |-> None,
   start |-> start, end |-> end]

GetTransactionsInRange(in) ==
  \E sku \in in.skus, start \in in.times, end \in in.times :
    /\ Alive
    /\ Query(RangeCallOf(sku, start, end),
             Ok(get_transactions_in_range(transactions, sku, start, end)))

ListLowStock(in) ==
  \E order \in Orderings(DOMAIN products) :
    /\ Alive
    /\ Query(CallOf("list_low_stock", <<>>, None, None, 0, None, None),
             Ok(list_low_stock(products, order)))

(* ------------------------- command line: history ------------------------ *)

\* The Err(String) of execute_command.
CliErr(message) == ResultOf("Err", <<>>, 0, 0, message, NoValue)

\* cli::format_error
format_error(err) ==
  IF err.kind = "ProductNotFound"
  THEN <<"Error: Product '">> \o err.sku \o <<"' not found.">>
  ELSE IF err.kind = "DuplicateSKU"
  THEN <<"Error: Product with SKU '">> \o err.sku \o <<"' already exists.">>
  ELSE IF err.kind = "InvalidInput"
  THEN <<"Error: ", err.detail>>
  ELSE IF err.kind = "InsufficientStock"
  THEN <<"Error: Insufficient stock for '">> \o err.sku \o <<"'. Requested: ">>
         \o FormatDecimal(err.requested) \o <<", Available: ">>
         \o FormatDecimal(err.available)
  ELSE <<"Error: Storage operation failed - ", err.detail>>

\* One line of the history listing: instant, sign, quantity, kind, notes.
history_line(txn) ==
  <<"  ">> \o FormatDecimal(txn.timestamp)
    \o << " ", IF txn.transaction_type = "Addition" THEN "+" ELSE "-", " " >>
    \o FormatDecimal(txn.quantity)
    \o << " ", IF txn.transaction_type = "Addition" THEN "addition" ELSE "removal" >>
    \o (IF txn.notes # None THEN <<" - ">> \o txn.notes[1] ELSE <<>>)

RECURSIVE history_lines(_)
history_lines(txns) ==
  IF txns = <<>> THEN <<>>
  ELSE history_line(Head(txns)) \o <<"\n">> \o history_lines(Tail(txns))

\* Mutant of execute_history: the ledger is queried without the lookup.
execute_history_unverified(catalog, ledger, sku, start, end) ==
  LET txns == IF start # None /\ end # None
              THEN get_transactions_in_range(ledger, sku, start[1], end[1])
              ELSE get_transactions(ledger, sku)
  IN IF txns = <<>>
     THEN Ok(<<"No transactions found for product '">> \o sku \o <<"'.">>)
     ELSE Ok(<<"Transaction History for '">> \o sku \o <<"' (">>
               \o FormatDecimal(Len(txns)) \o <<" transactions):\n">>
               \o history_lines(txns))

\* Mutant of execute_history: a bound supplied alone is applied, the missing
\* one left open.
execute_history_either_bound(catalog, ledger, sku, start, end) ==
  LET found == get_product(catalog, sku)
      txns == get_transactions_in_range(ledger, sku,
                                        IF start # None THEN start[1] ELSE 0,
                                        IF end # None THEN end[1] ELSE MaxTime + 1)
  IN IF found.kind # "Ok" THEN CliErr(format_error(found))
     ELSE IF txns = <<>>
     THEN Ok(<<"No transactions found for product '">> \o sku \o <<"'.">>)
     ELSE Ok(<<"Transaction History for '">> \o sku \o <<"' (">>
               \o FormatDecimal(Len(txns)) \o <<" transactions):\n">>
               \o history_lines(txns))

\* execute_command on Command::History: the product is looked up first and
\* its error returned; the range query needs both bounds.
execute_history(catalog, ledger, sku, start, end) ==
  LET found == get_product(catalog, sku)
      txns == IF start # None /\ end # None
              THEN get_transactions_in_range(ledger, sku, start[1], end[1])
              ELSE get_transactions(ledger, sku)
  IN IF found.kind # "Ok" THEN CliErr(format_error(found))
     ELSE IF txns = <<>>
     THEN Ok(<<"No transactions found for product '">> \o sku \o <<"'.">>)
     ELSE Ok(<<"Transaction History for '">> \o sku \o <<"' (">>
               \o FormatDecimal(Len(txns)) \o <<" transactions):\n">>
               \o history_lines(txns))

\* The call record of the history command.
HistoryCallOf(sku, start, end) ==
  [op |-> "history", sku |-> sku, name |-> None,
   description |-> None, quantity |-> 0, reorder_point |-> None, notes |-> None,
   start |-> start, end |-> end]

History(in) ==
  \E sku \in in.skus,
     start \in {None} \cup { Some(t) : t \in in.times },
     end \in {None} \cup { Some(t) : t \in in.times } :
    /\ Alive
    /\ Query(HistoryCallOf(sku, start, end),
             execute_history(products, transactions, sku, start, end))

(* --------------------------- specification ------------------------------ *)

Next ==
  \/ AddProduct(Inputs)
  \/ UpdateProduct(Inputs)
  \/ DeleteProduct(Inputs)
  \/ AddStock(Inputs)
  \/ RemoveStock(Inputs)
  \/ GetProduct(Inputs)
  \/ GetTransactions(Inputs)
  \/ Restart

Spec == Init /\ [][Next]_vars

NextHistory ==
  \/ AddProduct(HistoryInputs)
  \/ AddStock(HistoryInputs)
  \/ RemoveStock(HistoryInputs)
  \/ GetTransactions(HistoryInputs)
  \/ GetTransactionsInRange(HistoryInputs)

SpecHistory == Init /\ [][NextHistory]_vars

NextStock ==
  \/ AddProduct(StockInputs)
  \/ AddStock(StockInputs)
  \/ RemoveStock(StockInputs)
  \/ ListLowStock(StockInputs)

SpecStock == Init /\ [][NextStock]_vars

NextConstruction ==
  \/ Construct
  \/ Damage
  \/ AddProduct(ConstructionInputs)
  \/ AddStock(ConstructionInputs)
  \/ DeleteProduct(ConstructionInputs)
  \/ GetTransactions(ConstructionInputs)
  \/ GetTransactionsInRange(ConstructionInputs)
  \/ History(ConstructionInputs)

SpecConstruction == Init /\ [][NextConstruction]_vars

NextLedger ==
  \/ AddProduct(LedgerInputs)
  \/ UpdateProduct(LedgerInputs)
  \/ AddStock(LedgerInputs)
  \/ RemoveStock(LedgerInputs)
  \/ DeleteProduct(LedgerInputs)
  \/ GetProduct(LedgerInputs)
  \/ ListProducts(LedgerInputs)
  \/ ListLowStock(LedgerInputs)
  \/ GetTransactions(LedgerInputs)
  \/ GetTransactionsInRange(LedgerInputs)

SpecLedger == Init /\ [][NextLedger]_vars

NextFailure ==
  \/ AddProduct(FailureInputs)
  \/ UpdateProduct(FailureInputs)
  \/ AddStock(FailureInputs)
  \/ RemoveStock(FailureInputs)
  \/ DeleteProduct(FailureInputs)
  \/ Restart

SpecFailure == Init /\ [][NextFailure]_vars

\* One service instance from its construction over an empty store onwards:
\* every mutating operation, saves that may fail, and no other construction.
NextInstance ==
  \/ AddProduct(InstanceInputs)
  \/ UpdateProduct(InstanceInputs)
  \/ AddStock(InstanceInputs)
  \/ RemoveStock(InstanceInputs)
  \/ DeleteProduct(InstanceInputs)

SpecInstance == Init /\ [][NextInstance]_vars

\* Processes one after another over backing files that are rewritten from
\* outside between them: each constructs the service, which may then add a
\* product and answer queries.
NextStored ==
  \/ Overwrite
  \/ Construct
  \/ AddProduct(StoredInputs)
  \/ GetProduct(StoredInputs)
  \/ GetTransactions(StoredInputs)

SpecStored == Init /\ [][NextStored]_vars

\* The operations that validate their arguments, called with valid and
\* invalid arguments on a SKU that exists and one that does not.
NextValidation ==
  \/ AddProduct(ValidationInputs)
  \/ UpdateProduct(ValidationInputs)
  \/ AddStock(ValidationInputs)
  \/ RemoveStock(ValidationInputs)

SpecValidation == Init /\ [][NextValidation]_vars

\* The history command over a ledger whose entries lie at different instants.
NextWindow ==
  \/ AddProduct(WindowInputs)
  \/ AddStock(WindowInputs)
  \/ RemoveStock(WindowInputs)
  \/ History(WindowInputs)

SpecWindow == Init /\ [][NextWindow]_vars

NextPeers ==
  \/ AddProduct(PeerInputs)
  \/ AddStock(PeerInputs)
  \/ DeleteProduct(PeerInputs)
  \/ SwitchInstance
  \/ Restart

SpecPeers == Init /\ [][NextPeers]_vars

NextUpdate ==
  \/ AddProduct(UpdateInputs)
  \/ UpdateProduct(UpdateInputs)
  \/ GetProduct(UpdateInputs)
  \/ Restart

SpecUpdate == Init /\ [][NextUpdate]_vars

(* ------------------------------- claims --------------------------------- *)

MutatingOps == {"add_product", "update_product", "add_stock", "remove_stock", "delete_product"}

\* What a new service would hold, were it constructed now.
Reloaded == new(products_file, transactions_file)

InMemory == [products |-> products, transactions |-> transactions]

\* No two catalog entries carry the same SKU, and each is keyed by its own.
OneProductPerSku ==
  /\ \A k \in DOMAIN products : products[k].sku = k
  /\ \A k1, k2 \in DOMAIN products : products[k1].sku = products[k2].sku => k1 = k2

\* C1 as stated: the catalog holds at most one product per SKU, and every
\* add_product on a SKU already present returns DuplicateSKU(sku) and leaves
\* the catalog as it was.
C1_DuplicateAlwaysReported ==
  /\ []OneProductPerSku
  /\ [][ (call'.op = "add_product" /\ call'.sku \in DOMAIN products)
           => (result' = DuplicateSKU(call'.sku) /\ products' = products) ]_vars

\* C1 amended: the catalog holds at most one product per SKU; add_product on
\* a SKU already present leaves the catalog as it was and returns
\* DuplicateSKU(sku), unless the name is empty after trim, which is reported
\* first as InvalidInput.
C1_SkuUniqueness ==
  /\ []OneProductPerSku
  /\ [][ (call'.op = "add_product" /\ call'.sku \in DOMAIN products)
           => /\ products' = products
              /\ result' = IF Trim(call'.name) = <<>>
                           THEN InvalidInput("Name cannot be empty")
                           ELSE DuplicateSKU(call'.sku) ]_vars

C1_Witness ==
  /\ call.op = "add_product"
  /\ result = DuplicateSKU(call.sku)
  /\ call.sku \in DOMAIN products
  /\ products[call.sku].quantity # call.quantity

\* C2: every product's quantity is at least zero in every reachable state,
\* and a remove_stock that goes through had n <= the current quantity and
\* leaves exactly the difference.
C2_StockNonNegative ==
  /\ [](\A k \in DOMAIN products : products[k].quantity >= 0)
  /\ [][ (call'.op = "remove_stock" /\ result'.kind \in {"Ok", "StorageError"})
           => /\ call'.sku \in DOMAIN products
              /\ call'.quantity <= products[call'.sku].quantity
              /\ products'[call'.sku].quantity
                   = products[call'.sku].quantity - call'.quantity ]_vars

C2_Witness ==
  /\ call.op = "remove_stock"
  /\ result.kind = "Ok"
  /\ products[call.sku].quantity = 0

\* Sum of the Addition quantities minus sum of the Removal quantities of the
\* ledger entries of one SKU.
RECURSIVE Balance(_, _)
Balance(ledger, sku) ==
  IF ledger = <<>> THEN 0
  ELSE Balance(Tail(ledger), sku)
       + (IF Head(ledger).product_sku # sku THEN 0
          ELSE IF Head(ledger).transaction_type = "Addition" THEN Head(ledger).quantity
          ELSE 0 - Head(ledger).quantity)

\* C3: ledger conservation, step by step: an operation of the service changes
\* the quantity of a product that stays in the catalog by exactly what it adds
\* to the product's ledger balance, so quantity = initial_quantity + additions
\* - removals keeps holding for a product that is never deleted.
C3_LedgerConservation ==
  [][ call'.op \in MutatingOps
        => \A k \in DOMAIN products \cap DOMAIN products' :
             products'[k].id = products[k].id
               => products'[k].quantity - products[k].quantity
                    = Balance(transactions', k) - Balance(transactions, k) ]_vars

\* C4 as stated: after a mutating operation returned success the stored
\* products and the stored transactions equal the catalog and the ledger.
C4_BothCollectionsStored ==
  (call.op \in MutatingOps /\ result.kind = "Ok") => Reloaded = InMemory

\* C4 amended: after a mutating operation returned success, save_products was
\* called with the full catalog and succeeded, so the stored products equal
\* the catalog; add_stock, remove_stock and delete_product also saved the
\* full ledger, so the stored transactions equal the ledger; add_product and
\* update_product issue no transactions save.
C4_PersistedEqualsMemory ==
  (call.op \in MutatingOps /\ result.kind = "Ok")
    => /\ Reloaded.products = products
       /\ IF call.op \in {"add_product", "update_product"}
          THEN saves = << SaveCall("products", TRUE) >>
          ELSE /\ saves = << SaveCall("products", TRUE), SaveCall("transactions", TRUE) >>
               /\ Reloaded.transactions = transactions

C4_Witness ==
  /\ call.op = "remove_stock"
  /\ result.kind = "Ok"
  /\ Cardinality(DOMAIN products) = 1
  /\ Len(transactions) = 1
  /\ Reloaded = InMemory

\* C5: a mutating operation that returns InvalidInput, DuplicateSKU,
\* ProductNotFound or InsufficientStock leaves the catalog, the ledger and
\* both stored collections as they were and issues no save call.
C5_ValidationFailuresChangeNothing ==
  [][ (call'.op \in MutatingOps /\ result'.kind \in ValidationErrors)
        => /\ products' = products
           /\ transactions' = transactions
           /\ products_file' = products_file
           /\ transactions_file' = transactions_file
           /\ saves' = <<>> ]_vars

C5_Witness ==
  /\ call.op = "update_product"
  /\ result.kind = "InvalidInput"
  /\ call.description # None
  /\ call.sku \in DOMAIN products
  /\ products[call.sku].description # call.description[1]

\* C6: remove_stock(sku, n) with n above the quantity q of an existing
\* product returns InsufficientStock{sku, requested = n, available = q} and
\* changes neither the quantity nor the ledger.
C6_InsufficientStockReported ==
  [][ ( /\ call'.op = "remove_stock"
        /\ call'.sku \in DOMAIN products
        /\ call'.quantity > products[call'.sku].quantity )
        => /\ result' = InsufficientStock(call'.sku, call'.quantity,
                                          products[call'.sku].quantity)
           /\ result'.requested = call'.quantity
           /\ result'.available = products[call'.sku].quantity
           /\ products' = products
           /\ transactions' = transactions ]_vars

C6_Witness ==
  /\ call.op = "remove_stock"
  /\ result.kind = "InsufficientStock"
  /\ result.requested > result.available
  /\ products[call.sku].quantity = result.available

\* The SKU has no product and no history.
Purged(catalog, ledger, sku) ==
  /\ get_product(catalog, sku) = ProductNotFound(sku)
  /\ get_transactions(ledger, sku) = <<>>

\* C7: right after a successful delete_product(sku) the SKU has no product
\* and no ledger entry, and it stays so in this service instance until an
\* add_product creates the SKU again.
C7_DeletePurgesHistory ==
  [][ /\ (call'.op = "delete_product" /\ result'.kind = "Ok")
          => Purged(products', transactions', call'.sku)
      /\ \A sku \in Inputs.skus :
           ( /\ Purged(products, transactions, sku)
             /\ ~(call'.op = "add_product" /\ call'.sku = sku)
             /\ call'.op # "new" )
             => Purged(products', transactions', sku) ]_vars

C7_Witness ==
  /\ call.op = "delete_product"
  /\ result.kind = "Ok"
  /\ next_id = 3
  /\ products = EmptyMap
  /\ Purged(products, transactions, call.sku)

\* C8: as long as every save succeeded, a new service constructed over the
\* backing files holds the same catalog and the same ledger, in the same
\* order, as the running one.
C8_RoundTrip == ~save_failed => Reloaded = InMemory

C8_Witness ==
  /\ call.op = "new"
  /\ ~save_failed
  /\ products # EmptyMap
  /\ \E i \in DOMAIN transactions : transactions[i].notes # None

\* C9: a mutating operation one of whose save calls fails returns
\* StorageError wrapping the WriteError, and only then; the catalog and the
\* ledger keep the change the operation made.
C9_SaveFailureKeepsMutation ==
  [][ call'.op \in MutatingOps
        => /\ (\E i \in DOMAIN saves' : ~saves'[i].ok)
                <=> result'.kind = "StorageError"
           /\ result'.kind = "StorageError"
                => /\ result'.detail = WriteError
                   /\ call'.op = "add_product"
                        => /\ call'.sku \notin DOMAIN products
                           /\ get_product(products', call'.sku).kind = "Ok"
                           /\ products'[call'.sku].quantity = call'.quantity
                   /\ call'.op = "update_product"
                        => /\ call'.name # None
                                => products'[call'.sku].name = call'.name[1]
                           /\ call'.description # None
                                => products'[call'.sku].description = call'.description[1]
                   /\ call'.op = "delete_product"
                        => /\ call'.sku \in DOMAIN products
                           /\ Purged(products', transactions', call'.sku)
                   /\ call'.op \in {"add_stock", "remove_stock"}
                        => /\ Len(transactions') = Len(transactions) + 1
                           /\ transactions'[Len(transactions')].product_sku = call'.sku
                           /\ transactions'[Len(transactions')].quantity = call'.quantity
                           /\ products'[call'.sku].quantity # products[call'.sku].quantity ]_vars

C9_Witness ==
  /\ call.op = "add_stock"
  /\ result = From_StorageError(WriteError)
  /\ saves = << SaveCall("products", TRUE), SaveCall("transactions", FALSE) >>
  /\ Len(transactions) = 1
  /\ Reloaded.transactions = <<>>

IsSortedByTimestamp(txs) ==
  \A i, j \in DOMAIN txs : i < j => txs[i].timestamp <= txs[j].timestamp

Elements(seq) == { seq[i] : i \in DOMAIN seq }

\* C10: for every SKU, get_transactions returns exactly the ledger entries of
\* that SKU, with timestamps in non-decreasing order, whatever order the
\* clock stamped them in.
C10_HistoryOrdering ==
  \A sku \in HistoryInputs.skus :
    LET history == get_transactions(transactions, sku)
        entries == filter_by_sku(transactions, sku)
    IN /\ IsSortedByTimestamp(history)
       /\ Len(history) = Len(entries)
       /\ Elements(history) = Elements(entries)
       /\ (call.op = "get_transactions" /\ call.sku = sku) => result.value = history

C10_Witness ==
  /\ call.op = "get_transactions"
  /\ Len(result.value) >= 2
  /\ IsSortedByTimestamp(result.value)
  /\ ~IsSortedByTimestamp(filter_by_sku(transactions, call.sku))

\* The position of a transaction in the ledger; ids are unique.
LedgerIndex(ledger, tx) == CHOOSE i \in DOMAIN ledger : ledger[i].id = tx.id

\* Entries with equal timestamps appear in their ledger insertion order.
TiesInInsertionOrder(ledger, history) ==
  \A i, j \in DOMAIN history :
    (i < j /\ history[i].timestamp = history[j].timestamp)
      => LedgerIndex(ledger, history[i]) < LedgerIndex(ledger, history[j])

\* C11: the entries of one SKU that carry equal timestamps are returned by
\* get_transactions, and by get_transactions_in_range for every range, in
\* their ledger insertion order; the last query returned its history so.
C11_HistoryTieBreak ==
  /\ \A sku \in HistoryInputs.skus :
       /\ TiesInInsertionOrder(transactions, get_transactions(transactions, sku))
       /\ \A start, end \in HistoryInputs.times :
            TiesInInsertionOrder(transactions,
              get_transactions_in_range(transactions, sku, start, end))
  /\ call.op \in {"get_transactions", "get_transactions_in_range"}
       => TiesInInsertionOrder(transactions, result.value)

C11_Witness ==
  /\ call.op = "get_transactions_in_range"
  /\ Len(result.value) >= 3
  /\ \E i \in DOMAIN result.value : \E j \in DOMAIN result.value :
       /\ i < j
       /\ result.value[i].timestamp = result.value[j].timestamp
       /\ result.value[i].id # result.value[j].id
  /\ ~IsSortedByTimestamp(filter_by_sku(transactions, call.sku))

\* The entries of a history whose timestamp lies in [start, end].
WithinRange(history, start, end) ==
  SelectSeq(history, LAMBDA t : start <= t.timestamp /\ t.timestamp <= end)

\* C12: for every SKU, start and end, start > end included,
\* get_transactions_in_range(sku, start, end) is, as a sequence,
\* get_transactions(sku) restricted to the entries with start <= timestamp
\* <= end; the last range query returned exactly that.
C12_RangeFilter ==
  /\ \A sku \in HistoryInputs.skus : \A start, end \in HistoryInputs.times :
       get_transactions_in_range(transactions, sku, start, end)
         = WithinRange(get_transactions(transactions, sku), start, end)
  /\ call.op = "get_transactions_in_range"
       => result.value = WithinRange(get_transactions(transactions, call.sku),
                                     call.start, call.end)

C12_Witness ==
  /\ call.op = "get_transactions_in_range"
  /\ call.start = call.end
  /\ Len(result.value) = 1
  /\ result.value[1].timestamp = call.end
  /\ Len(get_transactions(transactions, call.sku)) = 3

C12_EmptyRangeWitness ==
  /\ call.op = "get_transactions_in_range"
  /\ call.start > call.end
  /\ result.value = <<>>
  /\ Len(get_transactions(transactions, call.sku)) >= 2

\* The catalog products whose quantity is at or below their reorder point.
LowProducts == { products[k] : k \in { x \in DOMAIN products :
                                        products[x].quantity <= products[x].reorder_point } }

\* C13: list_low_stock returns exactly the catalog products with quantity <=
\* reorder_point, each once, whatever order the map iterates in; a product at
\* its reorder point is in, a product above it is not.
C13_LowStockPredicate ==
  /\ \A order \in Orderings(DOMAIN products) :
       LET low == list_low_stock(products, order)
       IN /\ Elements(low) = LowProducts
          /\ Len(low) = Cardinality(LowProducts)
  /\ call.op = "list_low_stock"
       => /\ Elements(result.value) = LowProducts
          /\ \A i \in DOMAIN result.value :
               result.value[i].quantity <= result.value[i].reorder_point
          /\ \A k \in DOMAIN products :
               products[k].quantity > products[k].reorder_point
                 => products[k] \notin Elements(result.value)

C13_Witness ==
  /\ call.op = "list_low_stock"
  /\ Len(result.value) = 1
  /\ result.value[1].quantity = 0
  /\ result.value[1].reorder_point = 0
  /\ \E k \in DOMAIN products : products[k].quantity > products[k].reorder_point

\* The last entry of a ledger.
Last(ledger) == ledger[Len(ledger)]

\* The ledger grew by exactly one entry, at its end, recording the call.
AppendedOne(before, after, c, transaction_type) ==
  /\ Len(after) = Len(before) + 1
  /\ SubSeq(after, 1, Len(before)) = before
  /\ Last(after).product_sku = c.sku
  /\ Last(after).transaction_type = transaction_type
  /\ Last(after).quantity = c.quantity
  /\ Last(after).notes = c.notes

\* C15: an add_stock(sku, n, notes) that returns success has increased the
\* product's quantity by exactly n, changed nothing else in the catalog, and
\* appended exactly one transaction (sku, Addition, n, notes) at the end of
\* the ledger, every earlier transaction staying as it was.
C15_AddStockEffect ==
  [][ (call'.op = "add_stock" /\ result'.kind = "Ok")
        => /\ call'.sku \in DOMAIN products
           /\ products' = [products EXCEPT ![call'.sku].quantity = @ + call'.quantity]
           /\ AppendedOne(transactions, transactions', call', "Addition") ]_vars

\* C16: a remove_stock(sku, n, notes) that returns success, n equal to the
\* current quantity included, has decreased the product's quantity by exactly
\* n, changed nothing else in the catalog, and appended exactly one
\* transaction (sku, Removal, n, notes) at the end of the ledger.
C16_RemoveStockEffect ==
  [][ (call'.op = "remove_stock" /\ result'.kind = "Ok")
        => /\ call'.sku \in DOMAIN products
           /\ call'.quantity <= products[call'.sku].quantity
           /\ products' = [products EXCEPT ![call'.sku].quantity = @ - call'.quantity]
           /\ AppendedOne(transactions, transactions', call', "Removal") ]_vars

C16_Witness ==
  /\ call.op = "remove_stock"
  /\ result.kind = "Ok"
  /\ call.notes # None
  /\ call.quantity = U32_MAX - 1
  /\ products[call.sku].quantity = 0
  /\ Len(transactions) = 2
  /\ Last(transactions).transaction_type = "Removal"
  /\ Last(transactions).notes = call.notes

\* C17: add_stock and remove_stock called with quantity 0 return InvalidInput,
\* whether or not the SKU exists, and change and save nothing; every
\* transaction in the ledger has quantity >= 1.
C17_ZeroQuantityRejected ==
  /\ [](\A i \in DOMAIN transactions : transactions[i].quantity >= 1)
  /\ [][ (call'.op \in {"add_stock", "remove_stock"} /\ call'.quantity = 0)
           => /\ result' = InvalidInput("Quantity must be positive")
              /\ products' = products
              /\ transactions' = transactions
              /\ products_file' = products_file
              /\ transactions_file' = transactions_file
              /\ saves' = <<>> ]_vars

C17_Witness ==
  /\ call.op = "add_stock"
  /\ call.quantity = 0
  /\ result.kind = "InvalidInput"
  /\ call.sku \in DOMAIN products
  /\ Len(transactions) >= 1
  /\ \A i \in DOMAIN transactions : transactions[i].quantity >= 1

\* The string has no character other than whitespace.
IsBlank(str) == \A i \in DOMAIN str : str[i] = " "

\* The identifiers in use in the catalog and the ledger.
UsedIds ==
  { products[k].id : k \in DOMAIN products }
    \cup { transactions[i].id : i \in DOMAIN transactions }

\* C14: add_product with a blank sku or a blank name returns InvalidInput and
\* changes and saves nothing; otherwise, on a SKU not in the catalog, it
\* inserts a product with a fresh id and the given sku, name, description,
\* initial_quantity and reorder_point, leaves the other products alone,
\* issues one save of the products, and returns the inserted product when that
\* save succeeds (the storage error when it fails).
C14_AddProductContract ==
  [][ call'.op = "add_product"
        => IF IsBlank(call'.sku) \/ IsBlank(call'.name)
           THEN /\ result'.kind = "InvalidInput"
                /\ products' = products
                /\ products_file' = products_file
                /\ saves' = <<>>
           ELSE call'.sku \notin DOMAIN products
                  => /\ DOMAIN products' = DOMAIN products \cup {call'.sku}
                     /\ \A k \in DOMAIN products : products'[k] = products[k]
                     /\ products'[call'.sku] =
                          [ id |-> products'[call'.sku].id, sku |-> call'.sku,
                            name |-> call'.name, description |-> call'.description,
                            quantity |-> call'.quantity,
                            reorder_point |-> call'.reorder_point ]
                     /\ products'[call'.sku].id \notin UsedIds
                     /\ transactions' = transactions
                     /\ Len(saves') = 1
                     /\ saves'[1].target = "products"
                     /\ IF saves'[1].ok
                        THEN /\ result' = Ok(Some(products'[call'.sku]))
                             /\ load_products(products_file')
                                  \in { values(products', order) :
                                          order \in Orderings(DOMAIN products') }
                        ELSE /\ result' = From_StorageError(WriteError)
                             /\ products_file' = products_file ]_vars

C14_Witness ==
  /\ call.op = "add_product"
  /\ result.kind = "Ok"
  /\ result.value = Some(products[call.sku])
  /\ products[call.sku].quantity = 0
  /\ products[call.sku].reorder_point = 0
  /\ Cardinality(DOMAIN products) = 2
  /\ Reloaded.products = products

\* C20: get_product, update_product and delete_product, and add_stock and
\* remove_stock with a non-zero quantity, called with a SKU that is not in
\* the catalog, return ProductNotFound carrying that SKU and change nothing.
C20_AbsentSkuNotFound ==
  [][ ( /\ \/ call'.op \in {"get_product", "update_product", "delete_product"}
           \/ (call'.op \in {"add_stock", "remove_stock"} /\ call'.quantity # 0)
        /\ call'.sku \notin DOMAIN products )
        => /\ result'.kind = "ProductNotFound"
           /\ result'.sku = call'.sku
           /\ result'.value = NoValue
           /\ products' = products
           /\ transactions' = transactions
           /\ saves' = <<>> ]_vars

C20_Witness ==
  /\ call.op = "update_product"
  /\ result.kind = "ProductNotFound"
  /\ result.sku = call.sku
  /\ call.name # None
  /\ IsBlank(call.name[1])
  /\ products # EmptyMap
  /\ call.sku \notin DOMAIN products

\* The supplied value of an optional argument, the previous value without one.
Supplied(option, previous) == IF option # None THEN option[1] ELSE previous

\* The supplied name is empty after trim.
BlankNameSupplied(c) == c.name # None /\ IsBlank(c.name[1])

\* C18: update_product on an existing product never changes its id, sku or
\* quantity, nor any other product; when it applies (no blank name supplied)
\* each of name, description and reorder_point takes the supplied value and
\* keeps its previous value when absent; with all three absent the catalog
\* is as it was.
C18_UpdateFrame ==
  [][ (call'.op = "update_product" /\ call'.sku \in DOMAIN products)
        => LET before == products[call'.sku]
               after == products'[call'.sku]
           IN /\ DOMAIN products' = DOMAIN products
              /\ \A k \in DOMAIN products \ {call'.sku} : products'[k] = products[k]
              /\ after.id = before.id
              /\ after.sku = before.sku
              /\ after.quantity = before.quantity
              /\ ~BlankNameSupplied(call')
                   => /\ after.name = Supplied(call'.name, before.name)
                      /\ after.description = Supplied(call'.description, before.description)
                      /\ after.reorder_point = Supplied(call'.reorder_point, before.reorder_point)
              /\ (call'.name = None /\ call'.description = None /\ call'.reorder_point = None)
                   => products' = products ]_vars

C18_Witness ==
  /\ call.op = "update_product"
  /\ result.kind = "Ok"
  /\ call.name = None
  /\ call.description # None
  /\ call.reorder_point = None
  /\ products[call.sku].name = <<"v">>
  /\ products[call.sku].description = call.description[1]
  /\ products[call.sku].reorder_point = 1
  /\ products[call.sku].quantity = 1

\* C19: update_product on an existing product with a supplied name that is
\* empty after trim returns InvalidInput, leaves the product's name,
\* description and reorder_point (and the whole catalog) as they were,
\* whatever else is supplied, and issues no save.
C19_BlankNameRejectedFirst ==
  [][ ( /\ call'.op = "update_product"
        /\ call'.sku \in DOMAIN products
        /\ BlankNameSupplied(call') )
        => /\ result'.kind = "InvalidInput"
           /\ products'[call'.sku].name = products[call'.sku].name
           /\ products'[call'.sku].description = products[call'.sku].description
           /\ products'[call'.sku].reorder_point = products[call'.sku].reorder_point
           /\ products' = products
           /\ products_file' = products_file
           /\ saves' = <<>> ]_vars

C19_Witness ==
  /\ call.op = "update_product"
  /\ result.kind = "InvalidInput"
  /\ BlankNameSupplied(call)
  /\ call.description # None
  /\ call.reorder_point # None
  /\ products[call.sku].description # call.description[1]
  /\ products[call.sku].reorder_point # call.reorder_point[1]

\* serde_json accepts the file's text as an array of records.
IsJsonArray(file) == file.kind = "json"

\* The file exists.
Exists(file) == file.kind # "missing"

\* A step that constructs the service: the call is `new` and the backing
\* files are those the step started with.
Constructing == call'.op = "new" /\ UNCHANGED storage_vars

\* C21 as stated: construction over two missing files succeeds with an empty
\* catalog and an empty ledger, a missing file loads as an empty sequence,
\* and a file that exists but cannot be read, or whose text does not decode
\* as JSON, makes construction fail with a storage error.
C21_UndecodableAlwaysFails ==
  [][ Constructing
        => /\ (~Exists(products_file) /\ ~Exists(transactions_file))
                => (result'.kind = "Ok" /\ products' = EmptyMap /\ transactions' = <<>>)
           /\ ( \E file \in {products_file, transactions_file} :
                  Exists(file) /\ ~IsJsonArray(file) )
                => result'.kind = "StorageError" ]_vars

\* C21 amended: a missing file, and also a file holding only whitespace,
\* loads as an empty sequence; construction fails with a storage error
\* exactly when a file exists and cannot be read (ReadError) or holds
\* non-blank text that does not decode (ParseError), the products file being
\* loaded first.
C21_Construction ==
  [][ Constructing
        => LET failing(file) == file.kind \in {"unreadable", "corrupt"}
           IN /\ (~Exists(products_file) /\ ~Exists(transactions_file))
                   => (result'.kind = "Ok" /\ products' = EmptyMap /\ transactions' = <<>>)
              /\ result'.kind = "StorageError"
                   <=> (failing(products_file) \/ failing(transactions_file))
              /\ result'.kind \in {"Ok", "StorageError"}
              /\ result'.kind = "StorageError"
                   => result'.detail =
                        (LET first == IF failing(products_file) THEN products_file
                                      ELSE transactions_file
                         IN IF first.kind = "unreadable" THEN ReadError ELSE ParseError)
              /\ result'.kind = "Ok"
                   => /\ products_file.kind \in {"missing", "blank"} => products' = EmptyMap
                      /\ transactions_file.kind \in {"missing", "blank"}
                           => transactions' = <<>>
                      /\ result'.value = Some([products |-> products',
                                               transactions |-> transactions']) ]_vars

C21_Witness ==
  /\ call.op = "new"
  /\ result = From_StorageError(ParseError)
  /\ products_file.kind = "json"
  /\ Len(products_file.records) = 1
  /\ transactions_file = CorruptFile
  /\ products = EmptyMap

C21_BlankWitness ==
  /\ call.op = "new"
  /\ result.kind = "Ok"
  /\ products_file = BlankFile
  /\ products = EmptyMap
  /\ Len(transactions) = 1

\* C23: for a SKU with no product in the catalog get_transactions and
\* get_transactions_in_range return the ledger entries of that SKU, none or
\* some, as a sequence, and never an error.
C23_HistoryOfAbsentSku ==
  (call.op \in {"get_transactions", "get_transactions_in_range"}
     /\ call.sku \notin DOMAIN products)
    => /\ result.kind = "Ok"
       /\ result.value \in Seq(Elements(transactions))
       /\ Elements(result.value) \subseteq Elements(filter_by_sku(transactions, call.sku))
       /\ call.op = "get_transactions"
            => Len(result.value) = Len(filter_by_sku(transactions, call.sku))

C23_Witness ==
  /\ call.op = "get_transactions"
  /\ call.sku \notin DOMAIN products
  /\ result.kind = "Ok"
  /\ Len(result.value) = 1
  /\ result.value[1].product_sku = call.sku

C23_EmptyWitness ==
  /\ call.op = "get_transactions_in_range"
  /\ call.sku \notin DOMAIN products
  /\ result = Ok(<<>>)
  /\ next_id > 1

\* C28: the history command on a SKU that is not in the catalog returns the
\* product-not-found error, whether or not the ledger holds entries of that
\* SKU and whether or not a range is given, and never a history.
C28_HistoryVerifiesProduct ==
  (call.op = "history" /\ call.sku \notin DOMAIN products)
    => /\ result.kind = "Err"
       /\ result.detail = <<"Error: Product '">> \o call.sku \o <<"' not found.">>
       /\ result.value = NoValue

C28_Witness ==
  /\ call.op = "history"
  /\ call.sku \notin DOMAIN products
  /\ result.kind = "Err"
  /\ transactions = <<>>
  /\ transactions_file = JsonFile(<<>>)
  /\ next_id = 3

\* The ledger entries whose SKU is not the given one, in ledger order.
EntriesOfOthers(ledger, sku) == SelectSeq(ledger, LAMBDA t : t.product_sku # sku)

\* C22: an operation other than delete_product leaves the ledger as it was,
\* or, for add_stock and remove_stock, as it was with one entry more at the
\* end; a delete_product(sku) that finds the product leaves exactly the
\* entries of the other SKUs, unchanged and in their order.
C22_LedgerMonotonicGrowth ==
  [][ call'.op # "new"
        => IF call'.op = "delete_product"
           THEN transactions' =
                  IF call'.sku \in DOMAIN products
                  THEN EntriesOfOthers(transactions, call'.sku)
                  ELSE transactions
           ELSE \/ transactions' = transactions
                \/ /\ call'.op \in {"add_stock", "remove_stock"}
                   /\ Len(transactions') = Len(transactions) + 1
                   /\ SubSeq(transactions', 1, Len(transactions)) = transactions ]_vars

C22_Witness ==
  /\ call.op = "delete_product"
  /\ result.kind = "Ok"
  /\ next_id = 6
  /\ Len(transactions) = 2
  /\ transactions[1].id = NewUuid(3)
  /\ transactions[2].id = NewUuid(5)

QueryOps ==
  {"get_product", "list_products", "list_low_stock", "get_transactions",
   "get_transactions_in_range"}

\* C24: get_product, list_products, list_low_stock, get_transactions and
\* get_transactions_in_range leave the catalog, the ledger and both stored
\* collections as they were and issue no save call; list_products returns
\* each product of the catalog exactly once.
C24_QueriesArePure ==
  [][ call'.op \in QueryOps
        => /\ products' = products
           /\ transactions' = transactions
           /\ products_file' = products_file
           /\ transactions_file' = transactions_file
           /\ saves' = <<>>
           /\ call'.op = "list_products"
                => /\ Elements(result'.value) = { products[k] : k \in DOMAIN products }
                   /\ Len(result'.value) = Cardinality(DOMAIN products) ]_vars

C24_Witness ==
  /\ call.op = "list_products"
  /\ Len(result.value) = 2
  /\ result.value[1].sku # result.value[2].sku
  /\ transactions # <<>>
  /\ Reloaded = InMemory

\* C25: delete_product on an existing SKU succeeds whatever the product's
\* quantity and leaves the SKU absent; add_product with a non-blank name on
\* an absent SKU, deleted before or not, succeeds and never reports
\* DuplicateSKU.
C25_ProductLifecycle ==
  [][ /\ (call'.op = "delete_product" /\ call'.sku \in DOMAIN products)
          => (result'.kind = "Ok" /\ call'.sku \notin DOMAIN products')
      /\ ( /\ call'.op = "add_product"
           /\ call'.sku \notin DOMAIN products
           /\ ~IsBlank(call'.sku)
           /\ ~IsBlank(call'.name) )
          => /\ result'.kind = "Ok"
             /\ call'.sku \in DOMAIN products'
             /\ products'[call'.sku].id \notin UsedIds ]_vars

C25_Witness ==
  /\ call.op = "add_product"
  /\ result.kind = "Ok"
  /\ call.sku = <<"A">>
  /\ DOMAIN products = { <<"A">>, <<"B">> }
  /\ products[<<"B">>].id = NewUuid(1)
  /\ products[<<"A">>].id = NewUuid(3)
  /\ transactions = <<>>

\* What the backing files hold, read as new would read them.
Stored(pfile, tfile) == new(pfile, tfile)

\* The save calls of a step: the products save went through and the
\* transactions save failed.
SplitSave == << SaveCall("products", TRUE), SaveCall("transactions", FALSE) >>

\* C26: when within one add_stock, remove_stock or delete_product the
\* products save succeeds and the transactions save fails, the call returns
\* the storage error, the stored products are the catalog after the
\* operation and the stored transactions are what they were before it: after
\* a stock movement the stored quantity has moved and the stored ledger has
\* not; after a delete the stored catalog lacks the SKU and the stored ledger
\* keeps every entry of it.
C26_SplitBrain ==
  [][ saves' = SplitSave
        => LET before == Stored(products_file, transactions_file)
               after == Stored(products_file', transactions_file')
           IN /\ call'.op \in {"add_stock", "remove_stock", "delete_product"}
              /\ result'.kind = "StorageError"
              /\ after.products = products'
              /\ after.transactions = before.transactions
              /\ call'.op \in {"add_stock", "remove_stock"}
                   => /\ after.products[call'.sku].quantity # products[call'.sku].quantity
                      /\ Last(transactions').id
                           \notin { after.transactions[i].id : i \in DOMAIN after.transactions }
              /\ call'.op = "delete_product"
                   => /\ call'.sku \notin DOMAIN after.products
                      /\ filter_by_sku(after.transactions, call'.sku)
                           = filter_by_sku(before.transactions, call'.sku) ]_vars

C26_Witness ==
  /\ call.op = "delete_product"
  /\ saves = SplitSave
  /\ result = From_StorageError(WriteError)
  /\ call.sku \notin DOMAIN Reloaded.products
  /\ filter_by_sku(Reloaded.transactions, call.sku) # <<>>
  /\ transactions = <<>>

\* C29: add_stock, remove_stock and delete_product change the memory first,
\* then save the products, and save the transactions only after the products
\* save succeeded: the save calls of one operation are none (rejected),
\* products failed, or products succeeded followed by transactions; a products
\* save that succeeded stored the catalog as changed; a failed products save
\* leaves both stored collections as they were while the memory is changed.
\* add_product and update_product save the products only.
C29_SaveOrdering ==
  [][ call'.op \in MutatingOps
        => LET p_ok == << SaveCall("products", TRUE) >>
               p_failed == << SaveCall("products", FALSE) >>
               t_ok == << SaveCall("transactions", TRUE) >>
               t_failed == << SaveCall("transactions", FALSE) >>
               after == Stored(products_file', transactions_file')
           IN /\ IF call'.op \in {"add_product", "update_product"}
                 THEN /\ saves' \in { <<>>, p_ok, p_failed }
                      /\ transactions_file' = transactions_file
                 ELSE saves' \in { <<>>, p_failed, p_ok \o t_ok, p_ok \o t_failed }
              /\ saves' = <<>>
                   => (products_file' = products_file /\ transactions_file' = transactions_file)
              /\ (saves' # <<>> /\ saves'[1].ok) => after.products = products'
              /\ (Len(saves') = 2 /\ saves'[2].ok) => after.transactions = transactions'
              /\ saves' = p_failed
                   => /\ products_file' = products_file
                      /\ transactions_file' = transactions_file
                      /\ call'.op \in {"add_stock", "remove_stock", "delete_product"}
                           => products' # products ]_vars

C29_Witness ==
  /\ call.op = "remove_stock"
  /\ saves = << SaveCall("products", FALSE) >>
  /\ result = From_StorageError(WriteError)
  /\ Len(transactions) = Len(Reloaded.transactions) + 1
  /\ Reloaded.products[call.sku].quantity # products[call.sku].quantity

\* C27: with two instances over one store, a save overwrites the whole
\* collection: after a mutating operation of either instance succeeded the
\* stored catalog is that instance's catalog (and, when it saved the ledger,
\* the stored ledger is its ledger), so a product only the other instance
\* holds is not in the store.
C27_LastWriterWins ==
  [][ (call'.op \in MutatingOps /\ result'.kind = "Ok")
        => LET after == Stored(products_file', transactions_file')
           IN /\ after.products = products'
              /\ call'.op \in {"add_stock", "remove_stock", "delete_product"}
                   => after.transactions = transactions'
              /\ \A k \in DOMAIN peer_products' \ DOMAIN products' :
                   k \notin DOMAIN after.products ]_vars

C27_Witness ==
  /\ call.op = "add_product"
  /\ result.kind = "Ok"
  /\ DOMAIN products = { <<"B">> }
  /\ DOMAIN peer_products = { <<"A">> }
  /\ peer_products[<<"A">>].id = NewUuid(1)
  /\ products[<<"B">>].id = NewUuid(2)
  /\ DOMAIN Reloaded.products = { <<"B">> }

\* C30: an add_stock that returns success leaves the quantity at the
\* mathematical sum of the previous quantity and the amount, never at a
\* wrapped value, so the quantity moves with the ledger balance up to the
\* largest u32.
C30_AddStockExactSum ==
  [][ (call'.op = "add_stock" /\ result'.kind = "Ok")
        => /\ products'[call'.sku].quantity = products[call'.sku].quantity + call'.quantity
           /\ products'[call'.sku].quantity > products[call'.sku].quantity
           /\ products'[call'.sku].quantity <= U32_MAX
           /\ products'[call'.sku].quantity - products[call'.sku].quantity
                = Balance(transactions', call'.sku) - Balance(transactions, call'.sku) ]_vars

\* C31: within one service instance constructed over an empty store, whether
\* or not saves failed along the way, every entry of the in-memory ledger
\* names a SKU that is a key of the in-memory catalog.
C31_NoOrphanedTransactions ==
  \A i \in DOMAIN transactions : transactions[i].product_sku \in DOMAIN products

\* A delete whose save failed has removed one product and its entries from
\* memory while the entries of the other product stay in the ledger.
C31_Witness ==
  /\ call.op = "delete_product"
  /\ result.kind = "StorageError"
  /\ save_failures > 0
  /\ transactions # <<>>
  /\ DOMAIN products # {}
  /\ call.sku \notin DOMAIN products
  /\ \A i \in DOMAIN transactions : transactions[i].product_sku \in DOMAIN products
  /\ \E i \in DOMAIN Reloaded.transactions :
       Reloaded.transactions[i].product_sku = call.sku

\* C32: immediately after add_product(sku, ...) succeeds, get_transactions(sku)
\* is empty, in every reachable state of the service, the states reached after
\* a delete_product whose transactions save failed followed by a restart
\* included.
C32_FreshProductEmptyHistory ==
  [][ (call'.op = "add_product" /\ result'.kind = "Ok")
        => get_transactions(transactions', call'.sku) = <<>> ]_vars

\* C33: in every reachable state each catalog entry is stored under a key
\* equal to its own sku field; new() applied to stored products in which one
\* SKU occurs several times yields one entry for that SKU, the last such record
\* of the sequence, and takes the ledger verbatim from the stored
\* transactions, entries of SKUs without a product included.
C33_CatalogKeying ==
  /\ [](\A k \in DOMAIN products : products[k].sku = k)
  /\ [][ (Constructing /\ result'.kind = "Ok")
           => LET stored == load_products(products_file)
              IN /\ DOMAIN products' = { stored[i].sku : i \in DOMAIN stored }
                 /\ \A i \in DOMAIN stored :
                      (\A j \in DOMAIN stored : j > i => stored[j].sku # stored[i].sku)
                        => products'[stored[i].sku] = stored[i]
                 /\ transactions' = load_transactions(transactions_file) ]_vars

\* A service constructed over a products file holding two different records
\* of one SKU, and a ledger with an entry of a SKU that has no product.
C33_Witness ==
  /\ call.op = "new"
  /\ result.kind = "Ok"
  /\ LET stored == load_products(products_file)
     IN /\ Len(stored) = 2
        /\ stored[1].sku = stored[2].sku
        /\ stored[1] # stored[2]
        /\ DOMAIN products = { stored[2].sku }
        /\ products[stored[2].sku] = stored[2]
  /\ transactions = load_transactions(transactions_file)
  /\ \E i \in DOMAIN transactions : transactions[i].product_sku \notin DOMAIN products

\* C34: add_stock and remove_stock report a zero quantity as InvalidInput
\* before looking the product up, so also on an absent SKU; remove_stock
\* reports an absent SKU before comparing the quantity with the stock;
\* add_product reports an empty SKU, then an empty name, then a duplicate, so
\* an empty name on an existing SKU is InvalidInput; update_product reports an
\* absent SKU before an empty name.
C34_ValidationPrecedence ==
  [][ /\ (call'.op \in {"add_stock", "remove_stock"} /\ call'.quantity = 0)
           => result' = InvalidInput("Quantity must be positive")
      /\ (call'.op \in {"add_stock", "remove_stock"} /\ call'.quantity > 0
            /\ call'.sku \notin DOMAIN products)
           => result' = ProductNotFound(call'.sku)
      /\ (call'.op = "remove_stock" /\ call'.quantity > 0
            /\ call'.sku \in DOMAIN products
            /\ call'.quantity > products[call'.sku].quantity)
           => result' = InsufficientStock(call'.sku, call'.quantity,
                                          products[call'.sku].quantity)
      /\ (call'.op = "add_product" /\ IsBlank(call'.sku))
           => result' = InvalidInput("SKU cannot be empty")
      /\ (call'.op = "add_product" /\ ~IsBlank(call'.sku) /\ IsBlank(call'.name))
           => result' = InvalidInput("Name cannot be empty")
      /\ (call'.op = "add_product" /\ ~IsBlank(call'.sku) /\ ~IsBlank(call'.name)
            /\ call'.sku \in DOMAIN products)
           => result' = DuplicateSKU(call'.sku)
      /\ (call'.op = "update_product" /\ call'.sku \notin DOMAIN products)
           => result' = ProductNotFound(call'.sku)
      /\ (call'.op = "update_product" /\ call'.sku \in DOMAIN products
            /\ call'.name # None /\ IsBlank(call'.name[1]))
           => result' = InvalidInput("Name cannot be empty") ]_vars

\* add_stock of zero units on a SKU that has no product, while another
\* product exists, is reported as InvalidInput.
C34_Witness ==
  /\ call.op = "add_stock"
  /\ call.quantity = 0
  /\ call.sku \notin DOMAIN products
  /\ DOMAIN products # {}
  /\ result = InvalidInput("Quantity must be positive")

\* add_product with an empty name on a SKU that exists is reported as
\* InvalidInput.
C34_BlankNameWitness ==
  /\ call.op = "add_product"
  /\ call.sku \in DOMAIN products
  /\ IsBlank(call.name)
  /\ result = InvalidInput("Name cannot be empty")

\* update_product with an empty name on a SKU that has no product is
\* reported as ProductNotFound.
C34_UpdateWitness ==
  /\ call.op = "update_product"
  /\ call.sku \notin DOMAIN products
  /\ call.name # None
  /\ IsBlank(call.name[1])
  /\ result = ProductNotFound(call.sku)

\* remove_stock of more than any stock on a SKU that has no product is
\* reported as ProductNotFound, and of zero units as InvalidInput.
C34_RemoveWitness ==
  /\ call.op = "remove_stock"
  /\ call.sku \notin DOMAIN products
  /\ \/ call.quantity = 2 /\ result = ProductNotFound(call.sku)
     \/ call.quantity = 0 /\ result = InvalidInput("Quantity must be positive")

\* What the history command prints for the entries it selected.
HistoryOutput(sku, txns) ==
  IF txns = <<>>
  THEN <<"No transactions found for product '">> \o sku \o <<"'.">>
  ELSE <<"Transaction History for '">> \o sku \o <<"' (">>
         \o FormatDecimal(Len(txns)) \o <<" transactions):\n">>
         \o history_lines(txns)

\* C35: the History command on an existing product shows
\* get_transactions_in_range(sku, start, end) only when both --start and --end
\* are supplied; with one bound or none, the supplied bound is not applied
\* and the full get_transactions(sku) history is shown.
C35_HistoryWindow ==
  (call.op = "history" /\ call.sku \in DOMAIN products)
    => result = Ok(HistoryOutput(call.sku,
                     IF call.start # None /\ call.end # None
                     THEN get_transactions_in_range(transactions, call.sku,
                                                    call.start[1], call.end[1])
                     ELSE get_transactions(transactions, call.sku)))

\* The history command with --start alone, later than an entry of the
\* product: the entry before the bound is shown with the rest.
C35_Witness ==
  /\ call.op = "history"
  /\ call.sku \in DOMAIN products
  /\ call.start # None
  /\ call.end = None
  /\ Len(get_transactions(transactions, call.sku)) = 2
  /\ \E i \in DOMAIN transactions :
       /\ transactions[i].product_sku = call.sku
       /\ transactions[i].timestamp < call.start[1]
  /\ result = Ok(HistoryOutput(call.sku, get_transactions(transactions, call.sku)))

\* The history command with both bounds: an entry outside the window is left
\* out.
C35_RangeWitness ==
  /\ call.op = "history"
  /\ call.sku \in DOMAIN products
  /\ call.start # None
  /\ call.end # None
  /\ Len(get_transactions(transactions, call.sku)) = 2
  /\ Len(get_transactions_in_range(transactions, call.sku,
                                   call.start[1], call.end[1])) = 1
  /\ result = Ok(HistoryOutput(call.sku,
                   get_transactions_in_range(transactions, call.sku,
                                             call.start[1], call.end[1])))

====
